---- MODULE Spec2Model ----
(***************************************************************************)
(* Model of the travel chatbot: the Completion Client (PerplexityAPI),     *)
(* the Conversation Manager (TravelChatbot) and its entry points: the web  *)
(* API of app.py and the command line of travel_assistant.py.              *)
(*                                                                         *)
(* A text is a sequence of one-character strings, so that str.split(),     *)
(* str.strip() and str.lower() are computed and not assumed.               *)
(***************************************************************************)
EXTENDS Integers, Sequences, FiniteSets, TLC

\* api_key: whether PERPLEXITY_API_KEY is set in the process's environment
\* chatbot: the manager in use, 0 for None, else the number of the instance
\* instances: how many TravelChatbot objects were constructed
\* conversation_history: the history of the manager in use
\* clock: time.time() at the next reading; each reading is later than the last
\* pending: the chat requests received and not yet handled, oldest first
\* pc: where the process is ("web", or the command line's position)
\* last: the last completed operation, its inputs and its answer
VARIABLES api_key, chatbot, instances, conversation_history, clock, pending, pc, last

vars == <<api_key, chatbot, instances, conversation_history, clock, pending, pc, last>>

(***************************************************************************)
(* Bounds of the model.                                                    *)
(***************************************************************************)
\* turns the web process may accumulate
MaxWebTurns == 3
\* chat requests received and not yet handled
MaxPending == 2
\* turns one command-line session may accumulate
MaxCliTurns == 6
\* words of the longest generated input
MaxWords == 17

(***************************************************************************)
(* Program constants.                                                      *)
(***************************************************************************)
\* get_conversation_context(self, limit: int = 4)
ContextLimit == 4
\* if word_count > 15
HighWords == 15
\* elif word_count > 8
MediumWords == 8

None == "None"

\* "Oops! Something went wrong. Try again? ..." (the literal, abbreviated)
Fallback == <<"O", "o", "p", "s", "!">>
\* "... I'm ready when you are! Ask me anything about travel!" (abbreviated)
Canned == <<"r", "e", "a", "d", "y">>
\* self.system_prompt (abbreviated)
system_prompt == <<"s", "y", "s">>

(***************************************************************************)
(* str.strip(), str.split() and str.lower() on texts.                      *)
(***************************************************************************)
Whitespace == {" ", "\t", "\n"}

RECURSIVE LStrip(_)
LStrip(s) ==
    IF s = <<>> THEN <<>>
    ELSE IF Head(s) \in Whitespace THEN LStrip(Tail(s)) ELSE s

RECURSIVE RStrip(_)
RStrip(s) ==
    IF s = <<>> THEN <<>>
    ELSE IF s[Len(s)] \in Whitespace THEN RStrip(SubSeq(s, 1, Len(s) - 1)) ELSE s

\* s.strip()
Strip(s) == RStrip(LStrip(s))

\* a plausible slip: testing the message itself instead of message.strip()
IsBlankNoStrip(s) == s = <<>>

\* not s.strip()
IsBlank(s) == Strip(s) = <<>>

\* s.split(): the maximal runs of non-whitespace characters, in order
RECURSIVE SplitFrom(_, _, _)
SplitFrom(s, cur, acc) ==
    IF s = <<>> THEN (IF cur = <<>> THEN acc ELSE Append(acc, cur))
    ELSE IF Head(s) \in Whitespace
         THEN SplitFrom(Tail(s), <<>>, IF cur = <<>> THEN acc ELSE Append(acc, cur))
         ELSE SplitFrom(Tail(s), Append(cur, Head(s)), acc)

Split(s) == SplitFrom(s, <<>>, <<>>)

LowerChar(c) ==
    CASE c = "Q" -> "q"
      [] c = "U" -> "u"
      [] c = "I" -> "i"
      [] c = "T" -> "t"
      [] c = "B" -> "b"
      [] c = "Y" -> "y"
      [] c = "E" -> "e"
      [] OTHER -> c

\* s.lower()
Lower(s) == [i \in 1..Len(s) |-> LowerChar(s[i])]

ExitCommands == {<<"q", "u", "i", "t">>, <<"e", "x", "i", "t">>, <<"b", "y", "e">>,
                 <<"g", "o", "o", "d", "b", "y", "e">>}

(***************************************************************************)
(* The search-breadth heuristic of TravelChatbot.chat.  The code holds it  *)
(* twice, once in each branch of `if show_progress`.                       *)
(***************************************************************************)
\* a plausible slip: >= for >
SearchContextOffByOne(user_input) ==
    LET word_count == Len(Split(user_input))
    IN  IF word_count >= HighWords THEN "high"
        ELSE IF word_count >= MediumWords THEN "medium"
        ELSE "low"

\* the branch under the progress indicator
SearchContextProgress(user_input) ==
    LET word_count == Len(Split(user_input))
    IN  IF word_count > HighWords THEN "high"
        ELSE IF word_count > MediumWords THEN "medium"
        ELSE "low"

\* the branch without progress indicator
SearchContextPlain(user_input) ==
    LET word_count == Len(Split(user_input))
    IN  IF word_count > HighWords THEN "high"
        ELSE IF word_count > MediumWords THEN "medium"
        ELSE "low"

(***************************************************************************)
(* Context assembly.                                                       *)
(***************************************************************************)
Message(role, content) == [role |-> role, content |-> content]

\* history[-limit:] of a Python list
LastSlice(history, limit) ==
    IF Len(history) <= limit THEN history
    ELSE SubSeq(history, Len(history) - limit + 1, Len(history))

RECURSIVE Expand(_)
Expand(turns) ==
    IF turns = <<>> THEN <<>>
    ELSE <<Message("user", Head(turns).user_message),
           Message("assistant", Head(turns).assistant_response)>> \o Expand(Tail(turns))

\* a plausible slip: the whole history instead of history[-limit:]
ContextUnbounded(history, limit) ==
    <<Message("system", system_prompt)>> \o Expand(history)

get_conversation_context(history, limit) ==
    <<Message("system", system_prompt)>> \o Expand(LastSlice(history, limit))

(***************************************************************************)
(* The Completion Client, PerplexityAPI.chat.  What the upstream does is   *)
(* the environment's choice; a JSON value is tagged with its type, and an  *)
(* object is the function from its keys.                                   *)
(***************************************************************************)
JsonNull == [type |-> "null"]
JsonObject(f) == [type |-> "object", obj |-> f]
JsonNumber(n) == [type |-> "number", num |-> n]

Replies == {<<"o", "k">>, <<"n", "o">>}

BodyOk(reply) == JsonObject([choices |-> <<[message |-> [content |-> reply]]>>])
\* {"error": ...}: a body without the completion field
BodyNoChoices == JsonObject([error |-> "x"])
\* {}
BodyEmpty == JsonObject([k \in {} |-> None])
\* {"choices": []}
BodyEmptyChoices == JsonObject([choices |-> <<>>])
\* {"choices": [{"index": 0}]}
BodyBadChoice == JsonObject([choices |-> <<[index |-> 0]>>])
\* 5
BodyNumber == JsonNumber(5)

UpNetworkFailure == [status |-> "network_failure"]
UpHttpError == [status |-> "http_error"]
UpNotJson == [status |-> "not_json"]
UpBody(b) == [status |-> "ok", body |-> b]

\* the upstream's failures and bodies other than a well-formed completion
UpstreamFailures ==
    <<UpNetworkFailure, UpHttpError, UpBody(BodyNoChoices), UpBody(BodyEmpty),
      UpBody(BodyEmptyChoices), UpBody(BodyBadChoice), UpBody(BodyNumber), UpNotJson>>

Returned(v) == [exc |-> None, value |-> v]
Raised(e) == [exc |-> e, value |-> JsonNull]

\* requests.post, raise_for_status and response.json() under
\* `except requests.exceptions.RequestException: return None`.  A body that is
\* not JSON makes response.json() raise requests' JSONDecodeError, which is a
\* RequestException from requests 2.27 on and a plain ValueError before: the
\* repository pins no version, so both results are possible.
ApiChatResults(up) ==
    CASE up.status = "network_failure" -> {Returned(JsonNull)}
      [] up.status = "http_error" -> {Returned(JsonNull)}
      [] up.status = "not_json" -> {Returned(JsonNull), Raised("ValueError")}
      [] OTHER -> {Returned(up.body)}

(***************************************************************************)
(* The Conversation Manager, TravelChatbot.chat.                           *)
(***************************************************************************)
\* `not response`
Falsy(v) ==
    \/ v.type = "null"
    \/ v.type = "object" /\ DOMAIN v.obj = {}
    \/ v.type = "number" /\ v.num = 0

\* a plausible slip: `if not response` alone
AnswerCheckNoneOnly(response) ==
    IF Falsy(response) THEN "fallback"
    ELSE IF response.type # "object" THEN "TypeError"
    ELSE "proceed"

\* `if not response or 'choices' not in response`: `in` on a number raises
AnswerCheck(response) ==
    IF Falsy(response) THEN "fallback"
    ELSE IF response.type # "object" THEN "TypeError"
    ELSE IF "choices" \notin DOMAIN response.obj THEN "fallback"
    ELSE "proceed"

\* response['choices'][0]['message']['content']
Extract(response) ==
    LET obj == response.obj
    IN  IF "choices" \notin DOMAIN obj THEN [exc |-> "KeyError", content |-> <<>>]
        ELSE IF Len(obj.choices) = 0 THEN [exc |-> "IndexError", content |-> <<>>]
        ELSE IF "message" \notin DOMAIN obj.choices[1]
             THEN [exc |-> "KeyError", content |-> <<>>]
        ELSE IF "content" \notin DOMAIN obj.choices[1].message
             THEN [exc |-> "KeyError", content |-> <<>>]
        ELSE [exc |-> None, content |-> obj.choices[1].message.content]

\* a plausible slip: the dataclass default, search_triggered = False
NewTurnDefault(user_input, assistant_response, now) ==
    [user_message |-> user_input, assistant_response |-> assistant_response,
     timestamp |-> now, search_triggered |-> FALSE]

\* ConversationTurn(user_message=..., ..., search_triggered=True)
NewTurn(user_input, assistant_response, now) ==
    [user_message |-> user_input, assistant_response |-> assistant_response,
     timestamp |-> now, search_triggered |-> TRUE]

\* a plausible slip: insert(0, turn)
StoreTurnFront(history, turn) == <<turn>> \o history

\* self.conversation_history.append(turn)
StoreTurn(history, turn) == Append(history, turn)

\* The whole of TravelChatbot.chat for one result of the Completion Client:
\* what was sent, what came back to the caller and the history afterwards.
Chat(history, user_input, show_progress, result, now) ==
    LET messages == Append(get_conversation_context(history, ContextLimit),
                           Message("user", user_input))
        search_context == IF show_progress THEN SearchContextProgress(user_input)
                          ELSE SearchContextPlain(user_input)
        sent == [sent |-> messages, search_context_size |-> search_context,
                 result |-> result]
        raise(e) == sent @@ [raised |-> e, returned |-> <<>>, history |-> history]
        return(t, h) == sent @@ [raised |-> None, returned |-> t, history |-> h]
    IN  IF result.exc # None THEN raise(result.exc)
        ELSE LET check == AnswerCheck(result.value)
             IN  IF check = "TypeError" THEN raise("TypeError")
                 ELSE IF check = "fallback" THEN return(Fallback, history)
                 ELSE LET x == Extract(result.value)
                      IN  IF x.exc # None THEN raise(x.exc)
                          ELSE return(x.content,
                                      StoreTurn(history, NewTurn(user_input, x.content, now)))

(***************************************************************************)
(* What the last completed operation was given and what it answered; an    *)
(* optional number is a sequence of length 0 or 1.                         *)
(***************************************************************************)
Idle ==
    [op |-> "none", message |-> <<>>, conversation_id |-> None, show_progress |-> FALSE,
     manager |-> 0, called |-> FALSE, sent |-> <<>>, search_context_size |-> None,
     result |-> Returned(JsonNull), raised |-> None, returned |-> <<>>,
     response |-> <<>>, success |-> FALSE, error |-> None,
     total_conversations |-> <<>>, last_activity |-> <<>>, chatbot_ready |-> FALSE,
     before |-> <<>>, overtaken_by |-> None]

\* the fields a call of TravelChatbot.chat fills in
Called(c) ==
    [called |-> TRUE, sent |-> c.sent, search_context_size |-> c.search_context_size,
     result |-> c.result, raised |-> c.raised, returned |-> c.returned]

(***************************************************************************)
(* The web entry point, app.py.  `chatbot` is the global: 0 for None, else *)
(* the number of the TravelChatbot instance; conversation_history is the   *)
(* history of that instance.                                               *)
(***************************************************************************)
\* a plausible slip: no `if chatbot is None`, a new manager on every call
initialize_always(cb, inst, key, history) ==
    IF ~key THEN [exc |-> "RuntimeError", chatbot |-> cb, instances |-> inst,
                  history |-> history]
    ELSE [exc |-> None, chatbot |-> inst + 1, instances |-> inst + 1, history |-> <<>>]

initialize_chatbot(cb, inst, key, history) ==
    IF cb = 0
    THEN IF ~key
         THEN [exc |-> "RuntimeError", chatbot |-> cb, instances |-> inst,
               history |-> history]
         ELSE [exc |-> None, chatbot |-> inst + 1, instances |-> inst + 1,
               history |-> <<>>]
    ELSE [exc |-> None, chatbot |-> cb, instances |-> inst, history |-> history]

ConversationIds == {"default", "other"}

WebMessages == {<<>>, <<" ", "\t">>, <<"h", "i">>}

WebUpstreams ==
    <<UpNetworkFailure, UpHttpError, UpBody(BodyNoChoices), UpBody(BodyEmptyChoices),
      UpBody(BodyOk(<<"o", "k">>))>>

\* A POST /api/chat is received.  The code keeps no queue of its own: the
\* request waits in the server until the event loop enters chat_endpoint for it.
\* `passed_by` records the conversation_id of a request received later whose
\* turn is already stored.
Arrive ==
    /\ pc = "web"
    /\ Len(pending) < MaxPending
    /\ \E m \in WebMessages, c \in ConversationIds :
          pending' = Append(pending, [message |-> m, conversation_id |-> c,
                                      passed_by |-> None])
    /\ UNCHANGED <<api_key, chatbot, instances, conversation_history, clock, pc, last>>

\* pending without its i-th request; the requests received before it are marked
\* when a turn was stored for the i-th
Rest(i, stored, conversation_id) ==
    LET marked == [j \in 1..Len(pending) |->
                      IF stored /\ j < i
                      THEN [pending[j] EXCEPT !.passed_by = conversation_id]
                      ELSE pending[j]]
    IN  SubSeq(marked, 1, i - 1) \o SubSeq(marked, i + 1, Len(marked))

\* the two returns of chat_endpoint after the call of chatbot.chat
ChatResponse(returned, raised) ==
    IF raised = None
    THEN [response |-> returned, success |-> TRUE, error |-> None]
    ELSE [response |-> Fallback, success |-> FALSE, error |-> raised]

\* chat_endpoint, a coroutine without an await: once entered it runs to its
\* return, the blocking call of the Completion Client included.
chat_endpoint(i, up) ==
    /\ pc = "web"
    /\ i \in 1..Len(pending)
    /\ LET request == pending[i]
           init == initialize_chatbot(chatbot, instances, api_key, conversation_history)
           asked == [Idle EXCEPT !.op = "chat", !.message = request.message,
                                 !.conversation_id = request.conversation_id,
                                 !.manager = init.chatbot,
                                 !.before = conversation_history]
       IN  /\ chatbot' = init.chatbot
           /\ instances' = init.instances
           /\ IF init.exc # None
              THEN /\ last' = ChatResponse(<<>>, init.exc) @@ asked
                   /\ pending' = Rest(i, FALSE, None)
                   /\ UNCHANGED <<conversation_history, clock>>
              ELSE IF IsBlank(request.message)
              THEN /\ last' = [response |-> Canned, success |-> TRUE, error |-> None] @@ asked
                   /\ pending' = Rest(i, FALSE, None)
                   /\ conversation_history' = init.history
                   /\ UNCHANGED clock
              ELSE \E result \in ApiChatResults(up) :
                     LET c == Chat(init.history, request.message, FALSE, result, clock)
                         stored == c.history # init.history
                     IN  /\ Len(c.history) <= MaxWebTurns
                         /\ conversation_history' = c.history
                         /\ clock' = IF stored THEN clock + 1 ELSE clock
                         /\ pending' = Rest(i, stored, request.conversation_id)
                         /\ last' = ChatResponse(c.returned, c.raised) @@ Called(c) @@
                                    [asked EXCEPT !.overtaken_by =
                                                      IF stored THEN request.passed_by
                                                      ELSE None]
    /\ UNCHANGED <<api_key, pc>>

\* GET /api/health
health_check ==
    /\ pc = "web"
    /\ LET init == initialize_chatbot(chatbot, instances, api_key, conversation_history)
       IN  /\ chatbot' = init.chatbot
           /\ instances' = init.instances
           /\ conversation_history' = init.history
           /\ last' = [Idle EXCEPT !.op = "health", !.manager = init.chatbot,
                                   !.before = conversation_history,
                                   !.chatbot_ready = (init.exc = None /\ init.chatbot # 0)]
    /\ UNCHANGED <<api_key, clock, pending, pc>>

\* a plausible slip: the first turn's timestamp
StatsFirst(history) ==
    [total_conversations |-> <<Len(history)>>,
     last_activity |-> IF history # <<>> THEN <<history[1].timestamp>> ELSE <<>>]

\* the dict get_stats builds from the manager's history
Stats(history) ==
    [total_conversations |-> <<Len(history)>>,
     last_activity |-> IF history # <<>> THEN <<history[Len(history)].timestamp>> ELSE <<>>]

\* GET /api/stats
get_stats ==
    /\ pc = "web"
    /\ LET init == initialize_chatbot(chatbot, instances, api_key, conversation_history)
           asked == [Idle EXCEPT !.op = "stats", !.manager = init.chatbot,
                                 !.before = conversation_history]
       IN  /\ chatbot' = init.chatbot
           /\ instances' = init.instances
           /\ conversation_history' = init.history
           /\ last' = IF init.exc # None
                      THEN [asked EXCEPT !.error = "Chatbot not initialized"]
                      ELSE Stats(init.history) @@ asked
    /\ UNCHANGED <<api_key, clock, pending, pc>>

Init ==
    /\ api_key \in BOOLEAN
    /\ chatbot = 0
    /\ instances = 0
    /\ conversation_history = <<>>
    /\ clock = 1
    /\ pending = <<>>
    /\ pc = "web"
    /\ last = Idle

\* the upstream matters only to a text that reaches the Completion Client
UpstreamsFor(text, upstreams) ==
    IF IsBlank(text) \/ Strip(Lower(text)) \in ExitCommands THEN {1}
    ELSE 1..Len(upstreams)

Next ==
    \/ Arrive
    \/ \E i \in 1..Len(pending) :
          \E u \in UpstreamsFor(pending[i].message, WebUpstreams) :
             chat_endpoint(i, WebUpstreams[u])
    \/ health_check
    \/ get_stats

Spec == Init /\ [][Next]_vars

(***************************************************************************)
(* The command line, travel_assistant.py: main, single_question_mode and   *)
(* interactive_mode.  pc is "start" before main, "loop" inside the chat    *)
(* loop, "exit0" and "exit1" after a regular end and "crashed" after an    *)
(* exception nobody caught.                                                *)
(***************************************************************************)
Questions == {<<"h", "i">>, <<" ">>}

CliLines == {<<>>, <<" ", "\n">>, <<"y", "o", " ", "y", "o", " ">>,
             <<"Q", "u", "i", "t", " ">>, <<"b", "y", "e">>}

CliUpstreams == UpstreamFailures \o <<UpBody(BodyOk(<<"o", "k">>)), UpBody(BodyOk(<<"n", "o">>))>>

\* main without the credential: sys.exit(1)
MainNoKey ==
    /\ pc = "start"
    /\ ~api_key
    /\ pc' = "exit1"
    /\ last' = [Idle EXCEPT !.op = "main"]
    /\ UNCHANGED <<api_key, chatbot, instances, conversation_history, clock, pending>>

\* main with a question: single_question_mode, which catches nothing
single_question_mode(question, up) ==
    /\ pc = "start"
    /\ api_key
    /\ question # <<>>
    /\ chatbot' = instances + 1
    /\ instances' = instances + 1
    /\ \E result \in ApiChatResults(up) :
          LET c == Chat(<<>>, question, TRUE, result, clock)
          IN  /\ conversation_history' = c.history
              /\ clock' = IF c.history # <<>> THEN clock + 1 ELSE clock
              /\ pc' = IF c.raised # None THEN "crashed" ELSE "exit0"
              /\ last' = Called(c) @@
                         [Idle EXCEPT !.op = "question", !.message = question,
                                      !.show_progress = TRUE, !.manager = instances + 1]
    /\ UNCHANGED <<api_key, pending>>

\* main without a question (`if args.question` is false for '' too)
MainInteractive ==
    /\ pc = "start"
    /\ api_key
    /\ chatbot' = instances + 1
    /\ instances' = instances + 1
    /\ conversation_history' = <<>>
    /\ pc' = "loop"
    /\ last' = [Idle EXCEPT !.op = "main", !.manager = instances + 1]
    /\ UNCHANGED <<api_key, clock, pending>>

\* one pass of the `while True` of interactive_mode
interactive_mode(user_input, up) ==
    /\ pc = "loop"
    /\ LET asked == [Idle EXCEPT !.op = "line", !.message = user_input,
                                 !.show_progress = TRUE, !.manager = chatbot,
                                 !.before = conversation_history]
       IN  IF Strip(Lower(user_input)) \in ExitCommands
           THEN /\ pc' = "exit0"
                /\ last' = asked
                /\ UNCHANGED <<conversation_history, clock>>
           ELSE IF IsBlank(user_input)
           THEN /\ last' = asked
                /\ UNCHANGED <<conversation_history, clock, pc>>
           ELSE \E result \in ApiChatResults(up) :
                  LET c == Chat(conversation_history, user_input, TRUE, result, clock)
                  IN  /\ Len(c.history) <= MaxCliTurns
                      /\ conversation_history' = c.history
                      /\ clock' = IF c.history # conversation_history THEN clock + 1
                                  ELSE clock
                      \* `except Exception as e`: the loop goes on
                      /\ pc' = pc
                      /\ last' = Called(c) @@ asked
    /\ UNCHANGED <<api_key, chatbot, instances, pending>>

\* `except KeyboardInterrupt: break`
KeyboardInterrupt ==
    /\ pc = "loop"
    /\ pc' = "exit0"
    /\ UNCHANGED <<api_key, chatbot, instances, conversation_history, clock, pending, last>>

InitCLI ==
    /\ api_key \in BOOLEAN
    /\ chatbot = 0
    /\ instances = 0
    /\ conversation_history = <<>>
    /\ clock = 1
    /\ pending = <<>>
    /\ pc = "start"
    /\ last = Idle

NextCLI ==
    \/ MainNoKey
    \/ \E q \in Questions, u \in 1..Len(CliUpstreams) : single_question_mode(q, CliUpstreams[u])
    \/ MainInteractive
    \/ \E l \in CliLines :
          \E u \in UpstreamsFor(l, CliUpstreams) : interactive_mode(l, CliUpstreams[u])
    \/ KeyboardInterrupt

SpecCLI == InitCLI /\ [][NextCLI]_vars

(***************************************************************************)
(* TravelChatbot.chat applied once to inputs of every word count up to     *)
(* MaxWords, in several layouts of whitespace, with and without the        *)
(* progress indicator.                                                     *)
(***************************************************************************)
Layouts == {"single", "double", "padded", "tabs"}

Separator(layout) ==
    CASE layout = "double" -> <<" ", " ">>
      [] layout = "tabs" -> <<"\t", "\n">>
      [] OTHER -> <<" ">>

RECURSIVE Joined(_, _)
Joined(k, sep) ==
    IF k = 0 THEN <<>>
    ELSE IF k = 1 THEN <<"w">>
    ELSE Joined(k - 1, sep) \o sep \o <<"w", "x">>

\* a text of exactly k words
MkInput(k, layout) ==
    IF layout = "padded" THEN <<" ">> \o Joined(k, Separator(layout)) \o <<" ", "\n">>
    ELSE Joined(k, Separator(layout))

Converse(user_input, show_progress, up) ==
    /\ pc = "unit"
    /\ last.op = "none"
    /\ \E result \in ApiChatResults(up) :
          LET c == Chat(conversation_history, user_input, show_progress, result, clock)
          IN  /\ conversation_history' = c.history
              /\ clock' = IF c.history # conversation_history THEN clock + 1 ELSE clock
              /\ last' = Called(c) @@
                         [Idle EXCEPT !.op = "converse", !.message = user_input,
                                      !.show_progress = show_progress,
                                      !.manager = chatbot,
                                      !.before = conversation_history]
    /\ UNCHANGED <<api_key, chatbot, instances, pending, pc>>

InitWords ==
    /\ api_key = TRUE
    /\ chatbot = 1
    /\ instances = 1
    /\ conversation_history = <<>>
    /\ clock = 1
    /\ pending = <<>>
    /\ pc = "unit"
    /\ last = Idle

NextWords ==
    \E k \in 0..MaxWords, layout \in Layouts, show_progress \in BOOLEAN,
       u \in 1..Len(CliUpstreams) :
        Converse(MkInput(k, layout), show_progress, CliUpstreams[u])

SpecWords == InitWords /\ [][NextWords]_vars

(***************************************************************************)
(* Properties.                                                             *)
(***************************************************************************)
AllWhitespace(s) == \A i \in 1..Len(s) : s[i] \in Whitespace

\* the Completion Client gave no result, or an object without 'choices'
NoAnswer(r) ==
    /\ r.exc = None
    /\ \/ r.value.type = "null"
       \/ r.value.type = "object" /\ "choices" \notin DOMAIN r.value.obj

\* the Completion Client gave an object holding a well-formed first choice
Answered(r) ==
    /\ r.exc = None
    /\ r.value.type = "object"
    /\ "choices" \in DOMAIN r.value.obj
    /\ Len(r.value.obj.choices) > 0
    /\ "message" \in DOMAIN r.value.obj.choices[1]

IsPrefix(s, t) == Len(s) <= Len(t) /\ SubSeq(t, 1, Len(s)) = s

\* C1: whenever the upstream call made for a non-empty POST /api/chat message
\* fails (network failure, non-2xx status, body without the completion field),
\* the response has success=false, a populated error and the fallback text.
C1_UpstreamFailureReported ==
    (last.op = "chat" /\ last.called /\ NoAnswer(last.result))
        => /\ last.success = FALSE
           /\ last.error # None
           /\ last.response = Fallback

\* C2 as stated: for every empty or whitespace-only message, in every reachable
\* state (credential missing and manager not initialized included), the chat
\* endpoint never calls the Completion Client, returns the canned reply with
\* success=true and leaves the history unchanged.
C2_BlankAlwaysCanned ==
    (last.op = "chat" /\ AllWhitespace(last.message))
        => /\ ~last.called
           /\ last.response = Canned
           /\ last.success = TRUE
           /\ conversation_history = last.before

\* C2 as amended: for every empty or whitespace-only message the chat endpoint
\* never calls the Completion Client and leaves the history unchanged; it
\* returns the canned reply with success=true when the credential is set, and
\* the fallback text with success=false and the initialization error when the
\* credential is missing.
C2_BlankNeverCalls ==
    (last.op = "chat" /\ AllWhitespace(last.message))
        => /\ ~last.called
           /\ conversation_history = last.before
           /\ IF api_key
              THEN last.response = Canned /\ last.success = TRUE /\ last.error = None
              ELSE /\ last.response = Fallback
                   /\ last.success = FALSE
                   /\ last.error = "RuntimeError"
                   /\ chatbot = 0

C2_Witness ==
    /\ last.op = "chat"
    /\ last.message = <<" ", "\t">>
    /\ last.response = Canned
    /\ Len(conversation_history) > 0

\* C3: if the Completion Client returns no result or a result without the
\* 'choices' field, converse returns the fallback text and the history is
\* exactly what it was before the call.
C3_NoAnswerFallback ==
    (last.called /\ NoAnswer(last.result))
        => /\ last.raised = None
           /\ last.returned = Fallback
           /\ conversation_history = last.before

C3_Witness ==
    /\ last.called
    /\ last.result = Returned(BodyNoChoices)
    /\ last.returned = Fallback
    /\ Len(conversation_history) >= 2

\* C4: after every successful converse call the history is one longer than
\* before, the new turn is last, its user_message is the input verbatim, its
\* assistant_response is the text returned and its search_triggered is true.
C4_SuccessAppendsTurn ==
    (last.called /\ Answered(last.result))
        => /\ last.raised = None
           /\ Len(conversation_history) = Len(last.before) + 1
           /\ SubSeq(conversation_history, 1, Len(last.before)) = last.before
           /\ LET turn == conversation_history[Len(conversation_history)]
              IN  /\ turn.user_message = last.message
                  /\ turn.assistant_response = last.returned
                  /\ turn.search_triggered = TRUE

C4_Witness ==
    /\ last.called
    /\ Answered(last.result)
    /\ last.message = <<"y", "o", " ", "y", "o", " ">>
    /\ Len(conversation_history) >= 3
    /\ last.returned = <<"n", "o">>

\* C5: for a history of any length n the message list sent by converse is the
\* system message, then the last min(n,4) turns in order, each as a user
\* message followed by its assistant message, then the new user message; it
\* never has more than 10 messages and holds no turn older than the last 4.
C5_ContextWindow ==
    last.called
        => LET n == Len(last.before)
               m == IF n < 4 THEN n ELSE 4
               sent == last.sent
           IN  /\ Len(sent) = 2 * m + 2
               /\ Len(sent) <= 10
               /\ sent[1] = [role |-> "system", content |-> system_prompt]
               /\ \A j \in 1..m :
                     /\ sent[2 * j] =
                           [role |-> "user", content |-> last.before[n - m + j].user_message]
                     /\ sent[2 * j + 1] =
                           [role |-> "assistant",
                            content |-> last.before[n - m + j].assistant_response]
               /\ sent[Len(sent)] = [role |-> "user", content |-> last.message]

C5_Witness ==
    /\ last.called
    /\ Len(last.before) >= 6
    /\ Len(last.sent) = 10
    /\ last.before[1].assistant_response # last.before[3].assistant_response

\* C6: the search_context_size passed to the Completion Client is 'low' for at
\* most 8 whitespace-separated words, 'medium' for 9 to 15 and 'high' for more
\* than 15, with show_progress true and with show_progress false.
C6_SearchContextByWords ==
    \A k \in 0..MaxWords, layout \in Layouts :
        (last.op = "converse" /\ last.message = MkInput(k, layout))
            => /\ last.called
               /\ k <= 8 => last.search_context_size = "low"
               /\ (9 <= k /\ k <= 15) => last.search_context_size = "medium"
               /\ k > 15 => last.search_context_size = "high"

C6_Witness ==
    /\ last.op = "converse"
    /\ last.message = MkInput(16, "tabs")
    /\ last.show_progress = FALSE
    /\ last.search_context_size = "high"

\* C7 as stated: after any sequence of chat requests GET /api/stats returns
\* total_conversations equal to the history length and last_activity equal to
\* the timestamp of the last turn, or null when the history is empty, and does
\* not change the history.
C7_StatsAlwaysReported ==
    last.op = "stats"
        => /\ last.total_conversations = <<Len(conversation_history)>>
           /\ last.last_activity =
                 IF conversation_history = <<>> THEN <<>>
                 ELSE <<conversation_history[Len(conversation_history)].timestamp>>
           /\ conversation_history = last.before

\* C7 as amended: the same when the credential is set; when it is missing (no
\* manager can be made) GET /api/stats returns {"error": "Chatbot not
\* initialized"} without the two numbers.  The history is unchanged either way.
C7_StatsWhenInitialized ==
    last.op = "stats"
        => /\ conversation_history = last.before
           /\ IF api_key
              THEN /\ last.error = None
                   /\ last.total_conversations = <<Len(conversation_history)>>
                   /\ last.last_activity =
                         IF conversation_history = <<>> THEN <<>>
                         ELSE <<conversation_history[Len(conversation_history)].timestamp>>
              ELSE /\ last.error = "Chatbot not initialized"
                   /\ last.total_conversations = <<>>
                   /\ last.last_activity = <<>>

C7_Witness ==
    /\ last.op = "stats"
    /\ Len(conversation_history) >= 2
    /\ last.total_conversations = <<Len(conversation_history)>>
    /\ last.last_activity = <<clock - 1>>

\* C8: for every outcome of the outbound call no exception propagates out of
\* the Completion Client or out of converse: the caller always gets a text and
\* the process never crashes, in every entry point.
C8_NoExceptionEscapes ==
    /\ last.called => (last.result.exc = None /\ last.raised = None)
    /\ pc # "crashed"

\* C9: all chat requests, whatever their conversation_id, use the one global
\* manager made by the first successful initialize_chatbot call; the turns of
\* requests served concurrently can be stored in an order other than the order
\* in which the requests arrived (the witness).
C9_OneSharedManager ==
    /\ instances <= 1
    /\ chatbot = instances
    /\ last.op \in {"chat", "stats", "health"} => last.manager = chatbot
    /\ (last.op = "chat" /\ last.called /\ Answered(last.result))
          => /\ last.manager = 1
             /\ conversation_history =
                   Append(last.before, conversation_history[Len(conversation_history)])
             /\ conversation_history[Len(conversation_history)].user_message = last.message

\* a turn of conversation "other" stored after the turn of a request of
\* conversation "default" that arrived later
C9_Witness ==
    /\ last.op = "chat"
    /\ last.conversation_id = "other"
    /\ last.overtaken_by = "default"
    /\ Len(conversation_history) >= 2
    /\ instances = 1

\* C10: the history is append-only: every earlier history is a prefix of every
\* later one, and only a successful converse call extends it.
C10_AppendOnly ==
    [][/\ IsPrefix(conversation_history, conversation_history')
       /\ conversation_history' # conversation_history
             => /\ last'.op = "chat"
                /\ last'.called
                /\ Answered(last'.result)
                /\ Len(conversation_history') = Len(conversation_history) + 1]_vars

C10_Witness ==
    /\ Len(conversation_history) >= 2
    /\ last.op = "chat"
    /\ last.called
    /\ NoAnswer(last.result)
    /\ conversation_history = last.before

====
